---- MODULE Spec2Model ----
(***************************************************************************)
(* Model of jwst/extract_1d/psf_profile.py: the PSF-based spatial profile  *)
(* of a MIRI LRS fixed-slit exposure.                                      *)
(*                                                                         *)
(* Floating-point numbers are modelled as exact rationals <<n, d>> in      *)
(* lowest terms with d > 0; every non-finite value (NaN, +-Inf) is the     *)
(* single value <<0, 0>>.  Python's None is the empty tuple.  Arrays are   *)
(* records [shape, val] with val a function on 0-based index tuples.       *)
(***************************************************************************)
EXTENDS Integers, Sequences, FiniteSets, TLC

\* ------------------------------------------------------------------ numbers

None == <<>>
NaN == <<0, 0>>

Abs(n) == IF n < 0 THEN -n ELSE n

RECURSIVE GCD(_, _)
GCD(a, b) == IF b = 0 THEN a ELSE GCD(b, a % b)

\* the float n/d (d = 0: a non-finite value)
Rat(n, d) ==
    IF d = 0 THEN NaN
    ELSE LET g == GCD(Abs(n), Abs(d))
             s == IF d < 0 THEN -1 ELSE 1
         IN  <<(s * n) \div g, (s * d) \div g>>

Num(n) == <<n, 1>>
Zero == <<0, 1>>
One == <<1, 1>>

\* np.isnan / ~np.isfinite
IsNaN(a) == a[2] = 0

Add(a, b) == IF IsNaN(a) \/ IsNaN(b) THEN NaN
             ELSE Rat(a[1] * b[2] + b[1] * a[2], a[2] * b[2])
Neg(a) == IF IsNaN(a) THEN NaN ELSE <<-a[1], a[2]>>
Sub(a, b) == Add(a, Neg(b))
\* IEEE product: 0 * NaN is NaN
Mul(a, b) == IF IsNaN(a) \/ IsNaN(b) THEN NaN
             ELSE Rat(a[1] * b[1], a[2] * b[2])
\* IEEE quotient: x / 0 is non-finite
Div(a, b) == IF IsNaN(a) \/ IsNaN(b) THEN NaN
             ELSE Rat(a[1] * b[2], a[2] * b[1])
\* comparisons with NaN are false
Less(a, b) == ~IsNaN(a) /\ ~IsNaN(b) /\ a[1] * b[2] < b[1] * a[2]
\* psum != 0 (true of NaN)
NonZero(a) == IsNaN(a) \/ a[1] # 0
Floor(a) == a[1] \div a[2]
\* np.ceil and np.round (half to even) followed by int()
Ceil(a) == -((-a[1]) \div a[2])
Round(a) ==
    LET f == Floor(a)
        twice == 2 * (a[1] - f * a[2])
    IN  IF twice < a[2] THEN f
        ELSE IF twice > a[2] THEN f + 1
        ELSE IF f % 2 = 0 THEN f ELSE f + 1

RECURSIVE SumTo(_, _)
\* f[0] + ... + f[n-1], accumulated left to right
SumTo(f, n) == IF n = 0 THEN Zero ELSE Add(SumTo(f, n - 1), f[n - 1])

\* ------------------------------------------------------------------- arrays

HORIZONTAL == 1
VERTICAL == 2

Idx2(ny, nx) == (0 .. ny - 1) \X (0 .. nx - 1)
\* a 2-D array from the function of its values
Array2(ny, nx, val) == [shape |-> <<ny, nx>>, val |-> val]
NY(a) == a.shape[1]
NX(a) == a.shape[2]

\* np.mgrid[:ny, :nx]
mgrid_y(ny, nx) == Array2(ny, nx, [p \in Idx2(ny, nx) |-> Num(p[1])])
mgrid_x(ny, nx) == Array2(ny, nx, [p \in Idx2(ny, nx) |-> Num(p[2])])

\* ------------------------------------------------- the Profile Synthesizer

\* ndimage.map_coordinates, mode='constant', cval=0.0: a coordinate outside
\* [0, len - 1] (or NaN) takes the constant, no interpolation past the edge
Outside(c, len) == IsNaN(c) \/ Less(c, Zero) \/ Less(Num(len - 1), c)

\* the neighbour start + 1 of the order-1 filter, mirrored at the upper edge
Mirror(idx, len) ==
    IF len <= 1 THEN 0 ELSE IF idx >= len THEN 2 * len - 2 - idx ELSE idx

\* order-1 (bilinear) interpolation of input at the point (cy, cx)
Interp(input, cy, cx) ==
    IF Outside(cy, NY(input)) \/ Outside(cx, NX(input)) THEN Zero
    ELSE LET sy == Floor(cy)
             sx == Floor(cx)
             fy == Sub(cy, Num(sy))
             fx == Sub(cx, Num(sx))
             ty == Mirror(sy + 1, NY(input))
             tx == Mirror(sx + 1, NX(input))
             wy0 == Sub(One, fy)
             wx0 == Sub(One, fx)
         IN  Add(Add(Add(Mul(Mul(input.val[<<sy, sx>>], wy0), wx0),
                         Mul(Mul(input.val[<<sy, tx>>], wy0), fx)),
                     Mul(Mul(input.val[<<ty, sx>>], fy), wx0)),
                 Mul(Mul(input.val[<<ty, tx>>], fy), fx))

map_coordinates(input, yc, xc) ==
    Array2(NY(yc), NX(yc), [p \in DOMAIN yc.val |->
        Interp(input, yc.val[p], xc.val[p])])

\* np.sum(profile, axis=0) and np.sum(profile, axis=1)
SumAxis0(profile) ==
    [c \in 0 .. NX(profile) - 1 |->
        SumTo([r \in 0 .. NY(profile) - 1 |-> profile.val[<<r, c>>]], NY(profile))]
SumAxis1(profile) ==
    [r \in 0 .. NY(profile) - 1 |->
        SumTo([c \in 0 .. NX(profile) - 1 |-> profile.val[<<r, c>>]], NX(profile))]

\* profile[~np.isfinite(profile)] = 0.0
ZeroNonFinite(profile) ==
    Array2(NY(profile), NX(profile),
           [p \in DOMAIN profile.val |->
               IF IsNaN(profile.val[p]) THEN Zero ELSE profile.val[p]])

\* mutant: the sums taken along the dispersion axis
normalize_profile_other_axis(profile, dispaxis) ==
    LET psum == IF dispaxis = HORIZONTAL THEN SumAxis1(profile)
                ELSE SumAxis0(profile)
        ps(r, c) == IF dispaxis = HORIZONTAL THEN psum[r] ELSE psum[c]
        divided == Array2(NY(profile), NX(profile),
                          [p \in DOMAIN profile.val |->
                              IF NonZero(ps(p[1], p[2]))
                              THEN Div(profile.val[p], ps(p[1], p[2]))
                              ELSE Zero])
    IN  ZeroNonFinite(divided)

\* _normalize_profile: the value the array holds after the in-place update
normalize_profile(profile, dispaxis) ==
    LET psum == IF dispaxis = HORIZONTAL THEN SumAxis0(profile)
                ELSE SumAxis1(profile)
        ps(r, c) == IF dispaxis = HORIZONTAL THEN psum[c] ELSE psum[r]
        divided == Array2(NY(profile), NX(profile),
                          [p \in DOMAIN profile.val |->
                              IF NonZero(ps(p[1], p[2]))
                              THEN Div(profile.val[p], ps(p[1], p[2]))
                              ELSE Zero])
    IN  ZeroNonFinite(divided)

\* yidx * psf_subpix + psf_shift + extra_shift (psf_shift along the last axis)
\* xidx * psf_subpix + psf_shift[:, np.newaxis] + extra_shift
ShiftedIdx(idx, psf_subpix, psf_shift, dispaxis, extra_shift) ==
    Array2(NY(idx), NX(idx), [p \in DOMAIN idx.val |->
        Add(Add(Mul(idx.val[p], psf_subpix),
                     IF dispaxis = HORIZONTAL THEN psf_shift[p[2]] ELSE psf_shift[p[1]]),
                 extra_shift)])

\* mutant: the nod offset added in data pixels, not PSF pixels
NodIdx_unscaled(idx, psf_subpix, nod_offset) ==
    Array2(NY(idx), NX(idx), [p \in DOMAIN idx.val |->
        Add(idx.val[p], nod_offset)])

\* idx += psf_subpix * nod_offset
NodIdx(idx, psf_subpix, nod_offset) ==
    Array2(NY(idx), NX(idx), [p \in DOMAIN idx.val |->
        Add(idx.val[p], Mul(psf_subpix, nod_offset))])

\* mutant: the nod profile returned without the sign change
Negate_dropped(profile) == profile

\* nod_profile * -1
Negate(profile) ==
    Array2(NY(profile), NX(profile), [p \in DOMAIN profile.val |->
        Neg(profile.val[p])])

\* map_coordinates of the primary trace: the indices scaled and shifted
ResamplePrimary(xidx, yidx, psf_subpix, psf_shift, psf_data, dispaxis, extra_shift) ==
    IF dispaxis = HORIZONTAL
    THEN map_coordinates(psf_data,
            ShiftedIdx(yidx, psf_subpix, psf_shift, dispaxis, extra_shift), xidx)
    ELSE map_coordinates(psf_data, yidx,
            ShiftedIdx(xidx, psf_subpix, psf_shift, dispaxis, extra_shift))

\* map_coordinates of the negative nod: the shifted indices moved in place
ResampleNod(xidx, yidx, psf_subpix, psf_shift, psf_data, dispaxis, extra_shift, nod_offset) ==
    IF dispaxis = HORIZONTAL
    THEN map_coordinates(psf_data,
            NodIdx(ShiftedIdx(yidx, psf_subpix, psf_shift, dispaxis, extra_shift),
                   psf_subpix, nod_offset), xidx)
    ELSE map_coordinates(psf_data, yidx,
            NodIdx(ShiftedIdx(xidx, psf_subpix, psf_shift, dispaxis, extra_shift),
                   psf_subpix, nod_offset))

\* _make_cutout_profile: the list of profiles it returns
make_cutout_profile(xidx, yidx, psf_subpix, psf_shift, psf_data, dispaxis, extra_shift, nod_offset) ==
    LET sprofile == normalize_profile(
                        ResamplePrimary(xidx, yidx, psf_subpix, psf_shift,
                                        psf_data, dispaxis, extra_shift), dispaxis)
    IN  IF nod_offset = None THEN <<sprofile>>
        ELSE LET nod_profile == normalize_profile(
                                    ResampleNod(xidx, yidx, psf_subpix, psf_shift,
                                                psf_data, dispaxis, extra_shift,
                                                nod_offset), dispaxis)
             IN  <<sprofile, Negate(nod_profile)>>

\* --------------------------------------------------------- reference files

SUPPORTED == "MIR_LRS-FIXEDSLIT"

\* lrsdata[:, k] + zero_point: each table entry moved by the zero point
AddTo(col, zero) == [i \in DOMAIN col |-> Add(col[i], zero)]

\* mutant: the table read whatever the exposure type
open_specwcs_any_type(file, exp_type) ==
    [kind |-> "return",
     trace |-> AddTo(file.xcen, Sub(file.imx, One)),
     wave_trace |-> AddTo(file.ycen, Sub(file.imy, One)),
     wavetab |-> file.wave]

\* open_specwcs: the trace table read from the file, or the error raised
open_specwcs(file, exp_type) ==
    IF exp_type = SUPPORTED
    THEN [kind |-> "return",
          trace |-> AddTo(file.xcen, Sub(file.imx, One)),
          wave_trace |-> AddTo(file.ycen, Sub(file.imy, One)),
          wavetab |-> file.wave]
    ELSE [kind |-> "raise", error |-> "NotImplementedError"]

\* open_psf: the PSF model read from the file, or the error raised
open_psf(file, exp_type) ==
    IF exp_type = SUPPORTED
    THEN [kind |-> "return", psf_model |-> file]
    ELSE [kind |-> "raise", error |-> "NotImplementedError"]

\* ------------------------------------------------------- the Trace Locator

RECURSIVE BasisTo(_, _, _, _)
\* the product over k' <= k, k' # j of (at - x[k']) / (x[j] - x[k'])
BasisTo(x, j, at, k) ==
    IF k = 0 THEN One
    ELSE Mul(BasisTo(x, j, at, k - 1),
             IF k = j THEN One ELSE Div(Sub(at, x[k]), Sub(x[j], x[k])))

RECURSIVE LagrangeTo(_, _, _, _)
LagrangeTo(x, y, at, j) ==
    IF j = 0 THEN Zero
    ELSE Add(LagrangeTo(x, y, at, j - 1), Mul(y[j], BasisTo(x, j, at, Len(x))))

\* CubicSpline(x, y)(at) with the default not-a-knot ends: through at most
\* four points it is the polynomial that interpolates them
CubicSpline(x, y, at) == LagrangeTo(x, y, at, Len(x))

\* interpolate.interp1d(x, y, fill_value="extrapolate")(at): linear on the
\* segment searchsorted finds, the end segments continued outside the table
interp1d(x, y, at) ==
    LET n == Len(x)
        found == Cardinality({i \in 1 .. n : Less(x[i], at)})
        hi == (IF found < 1 THEN 1 ELSE IF found > n - 1 THEN n - 1 ELSE found) + 1
        lo == hi - 1
        slope == Div(Sub(y[hi], y[lo]), Sub(x[hi], x[lo]))
    IN  Add(Mul(slope, Sub(at, x[lo])), y[lo])

\* mutant: the shift with the opposite sign
TraceShift_reversed(wavetab, trace, middle_wl, location) ==
    Sub(CubicSpline(wavetab, trace, middle_wl), location)

\* shift = location - cs(middle_wl)
TraceShift(wavetab, trace, middle_wl, location) ==
    Sub(location, CubicSpline(wavetab, trace, middle_wl))

\* trace_shift = (trace - bbox[0][0]) + shift
ShiftedTrace(trace, bbox, shift) ==
    [i \in DOMAIN trace |-> Add(Sub(trace[i], bbox[1][1]), shift)]

\* psf_shift = center_col - psf_interp(psf_wave) * psf_subpix
PsfShift(wavetab, trace_shift, psf_model) ==
    [i \in DOMAIN psf_model.wave |->
        Sub(psf_model.center_col,
            Mul(interp1d(wavetab, trace_shift, psf_model.wave[i]), psf_model.subpix))]

\* nod_pair_location: the cross-dispersion coordinate of the pixel the WCS
\* maps the mirrored dither position to
nod_pair_location(input_model, middle_wl, dispaxis) ==
    IF dispaxis = HORIZONTAL THEN input_model.wcs_backward[2]
    ELSE input_model.wcs_backward[1]

\* ----------------------------------------------------- the output profiles

\* the length of data[lo:hi] along an axis of length len
SliceLen(lo, hi, len) ==
    LET clip(i) == IF i < 0 THEN (IF i + len < 0 THEN 0 ELSE i + len)
                   ELSE IF i > len THEN len ELSE i
    IN  IF clip(hi) > clip(lo) THEN clip(hi) - clip(lo) ELSE 0

\* the pixels of the cutout the mask valid selects
Valid(cut, x0, x1, y0, y1) ==
    {p \in Idx2(cut[1], cut[2]) :
        p[1] + y0 >= 0 /\ p[1] + y0 < y1 /\ p[2] + x0 >= 0 /\ p[2] + x0 < x1}

\* the position of a selected pixel in sprofile[valid] (row-major)
Rank(p, valid) ==
    Cardinality({q \in valid : q[1] < p[1] \/ (q[1] = p[1] /\ q[2] < p[2])})

\* the index tuples of an array of the given shape
Indices(shape) ==
    IF Len(shape) = 2 THEN Idx2(shape[1], shape[2])
    ELSE (0 .. shape[1] - 1) \X (0 .. shape[2] - 1) \X (0 .. shape[3] - 1)

\* profile = np.full(data_shape, 0.0)
\* profile[output_y[valid], output_x[valid]] = sprofile[valid]
\* The two index arrays select along the first two axes of profile, whatever
\* its number of dimensions; on a 3-D profile the values broadcast along the
\* last axis.
EmbedProfile(sprofile, data_shape, x0, x1, y0, y1) ==
    LET valid == Valid(sprofile.shape, x0, x1, y0, y1)
        k == Cardinality(valid)
        at(i, j) == CHOOSE p \in valid : p[1] + y0 = i /\ p[2] + x0 = j
        hit(i, j) == \E p \in valid : p[1] + y0 = i /\ p[2] + x0 = j
        nth(n) == CHOOSE p \in valid : Rank(p, valid) = n
    IN  IF \E p \in valid : p[1] + y0 >= data_shape[1] \/ p[2] + x0 >= data_shape[2]
        THEN [kind |-> "raise", error |-> "IndexError"]
        ELSE IF Len(data_shape) = 3 /\ k # data_shape[3] /\ k # 1
        THEN [kind |-> "raise", error |-> "ValueError"]
        ELSE [kind |-> "return",
              profile |->
                [shape |-> data_shape,
                 val |-> [q \in Indices(data_shape) |->
                    IF ~hit(q[1], q[2]) THEN Zero
                    ELSE IF Len(data_shape) = 2 THEN sprofile.val[at(q[1], q[2])]
                    ELSE IF k = 1 THEN sprofile.val[nth(0)]
                    ELSE sprofile.val[nth(q[3])]]]]

\* ------------------------------------------------------------------ state

VARIABLES
    input_model,    \* the observation: exposure type, cal steps, WCS, data shape
    ref_files,      \* the contents of the specwcs and PSF reference files
    args,           \* middle_wl, location, optimize_shifts, model_nod_pair
    locals,         \* the local variables of the running psf_profile call
    opt,            \* the minimizer: its current parameter vector, evaluations
    opened,         \* the reference files opened so far
    ran,            \* the components run so far, in order
    log,            \* the messages logged so far
    ret,            \* what the last call returned or raised
    call_no,        \* 1 during the first psf_profile call, 2 during the repeat
    first_ret,      \* what the first psf_profile call returned or raised
    synth_args,     \* the arguments of a direct _make_cutout_profile call
    synth_ret,      \* the list it returned (None before the call)
    heap,           \* the array buffers allocated so far, by identity
    scope,          \* the names of a running _make_cutout_profile call
    caller,         \* the buffers its caller holds, the calls it has made
    pc              \* where the caller is

vars == <<input_model, ref_files, args, locals, opt, opened, ran, log, ret,
          call_no, first_ret, synth_args, synth_ret, heap, scope, caller, pc>>

store_vars == <<heap, scope, caller>>

orch_vars == <<input_model, ref_files, args, locals, opt, opened, ran, log, ret,
               call_no, first_ret>>

\* ------------------------------------------------------------- the inputs

ExpTypes == {SUPPORTED, "MIR_LRS-SLITLESS"}
\* str(input_model.meta.cal_step.resample), str(...back_sub): 'None' if unset
CalSteps == {"COMPLETE", "None"}

RatSeq(ints) == [i \in DOMAIN ints |-> Num(ints[i])]

\* the reference files: a specwcs table of rows (x_center, y_center,
\* wavelength) with its zero point, and a PSF model (data, wave,
\* meta.psf.subpix, meta.psf.center_col) whose image has a peak on the middle
\* of the oversampled axis.  The first table gives the trace
\* (1, 10), (2, 20), (3, 30), the second one is not linear in wavelength.
PsfImage(dispaxis) ==
    IF dispaxis = HORIZONTAL
    THEN Array2(3, 2, [p \in Idx2(3, 2) |->
            IF p[1] = 1 THEN Num(2) ELSE Num(p[2])])
    ELSE Array2(2, 3, [p \in Idx2(2, 3) |->
            IF p[2] = 1 THEN Num(2) ELSE Num(p[1])])

RefFiles(dispaxis) ==
    {[specwcs |-> [xcen |-> RatSeq(<<9, 19, 29>>), ycen |-> RatSeq(<<0, 1, 2>>),
                   wave |-> RatSeq(<<1, 2, 3>>), imx |-> Num(2), imy |-> One],
      psf |-> [data |-> PsfImage(dispaxis),
               wave |-> [i \in 0 .. 1 |-> Num(2 + i)],
               subpix |-> Num(2), center_col |-> Num(50)]],
     [specwcs |-> [xcen |-> RatSeq(<<0, 0, 1>>), ycen |-> RatSeq(<<0, 1, 2>>),
                   wave |-> RatSeq(<<1, 2, 3>>), imx |-> Num(2), imy |-> One],
      psf |-> [data |-> PsfImage(dispaxis),
               wave |-> [i \in 0 .. 1 |-> Num(1 + 2 * i)],
               subpix |-> One, center_col |-> One]]}

\* data.shape and wcs.bounding_box ((x_lo, x_hi), (y_lo, y_hi)): each cutout
\* is 2 x 2, in a 2-D frame or a 3-D stack of integrations
Frames ==
    {[data_shape |-> <<3, 3>>,
      bbox |-> <<<<Rat(1, 2), Rat(5, 2)>>, <<Rat(-1, 2), Rat(3, 2)>>>>],
     [data_shape |-> <<3, 4>>,
      bbox |-> <<<<One, Num(3)>>, <<One, Num(3)>>>>],
     [data_shape |-> <<2, 3, 3>>,
      bbox |-> <<<<One, Num(3)>>, <<One, Num(3)>>>>],
     [data_shape |-> <<2, 3, 4>>,
      bbox |-> <<<<Rat(1, 2), Rat(5, 2)>>, <<Rat(-1, 2), Rat(3, 2)>>>>]}

MiddleWls == {None, NaN, Num(2), Rat(5, 2)}
Locations == {None, NaN, Num(25), Rat(3, 2)}
\* what wcs.backward_transform gives for the mirrored dither position
WcsBackward == {<<NaN, NaN>>, <<Rat(1, 2), Num(2)>>}
\* the wavelength the WCS gives at the centre of the bounding box
WcsCenterWl == Num(3)

LocalsInit ==
    [trace |-> None, wavetab |-> None, psf_model |-> None, dispaxis |-> None,
     middle_wl |-> None, location |-> None,
     x0 |-> None, x1 |-> None, y0 |-> None, y1 |-> None, cutout_shape |-> None,
     cen_shift |-> None, shift |-> None, trace_shift |-> None,
     psf_shift |-> None, nod_offset |-> None, extra_shift |-> None,
     sprofiles |-> None]

NoRet == [kind |-> "none"]

\* the arguments of psf_profile; a direct call of open_specwcs or open_psf
\* takes only a file and the exposure type
DefaultArgs ==
    [middle_wl |-> None, location |-> None, optimize_shifts |-> TRUE,
     model_nod_pair |-> TRUE]

\* the observation, the reference files and the arguments of the call
Inputs ==
    {[input_model |-> [exp_type |-> exp_type, resample |-> resample,
                       back_sub |-> back_sub, dispaxis |-> dispaxis,
                       data_shape |-> frame.data_shape, bbox |-> frame.bbox,
                       wcs_wl |-> WcsCenterWl, wcs_backward |-> wcs_backward],
      ref_files |-> refs] :
        exp_type \in ExpTypes, resample \in CalSteps, back_sub \in CalSteps,
        dispaxis \in {HORIZONTAL, VERTICAL}, frame \in Frames,
        wcs_backward \in WcsBackward,
        refs \in RefFiles(HORIZONTAL) \cup RefFiles(VERTICAL)}

\* the WCS is asked for the nod position only for nod-subtracted data and
\* model_nod_pair, so only then does the model vary its answer
Init ==
    /\ pc \in {"psf_profile", "open_specwcs", "open_psf"}
    /\ \E in \in Inputs :
        /\ in.ref_files \in RefFiles(in.input_model.dispaxis)
        /\ input_model = in.input_model
        /\ ref_files = in.ref_files
    /\ args \in [middle_wl : MiddleWls, location : Locations,
                 optimize_shifts : BOOLEAN, model_nod_pair : BOOLEAN]
    /\ (input_model.back_sub # "COMPLETE" \/ ~args.model_nod_pair \/ pc # "psf_profile")
            => input_model.wcs_backward = <<NaN, NaN>>
    /\ pc # "psf_profile" =>
            /\ args = DefaultArgs
            /\ input_model.resample = "None" /\ input_model.back_sub = "None"
            /\ input_model.data_shape = <<3, 3>>
    /\ locals = LocalsInit
    /\ opt = None
    /\ opened = {}
    /\ ran = <<>>
    /\ log = {}
    /\ ret = NoRet
    /\ call_no = IF pc = "psf_profile" THEN 1 ELSE 0
    /\ first_ret = NoRet
    /\ synth_args = None
    /\ synth_ret = None
    /\ heap = <<>> /\ scope = None /\ caller = None

\* ------------------------------------------------- open_specwcs and open_psf

\* a direct call of open_specwcs(specwcs_ref_name, exp_type)
CallOpenSpecwcs ==
    /\ pc = "open_specwcs"
    /\ LET r == open_specwcs(ref_files.specwcs, input_model.exp_type)
       IN  /\ ret' = r
           /\ opened' = IF r.kind = "return" THEN opened \cup {"specwcs"} ELSE opened
           /\ pc' = IF r.kind = "return" THEN "returned" ELSE "raised"
    /\ UNCHANGED <<input_model, ref_files, args, locals, opt, ran, log, call_no,
                   first_ret, synth_args, synth_ret, store_vars>>

\* a direct call of open_psf(psf_refname, exp_type)
CallOpenPsf ==
    /\ pc = "open_psf"
    /\ LET r == open_psf(ref_files.psf, input_model.exp_type)
       IN  /\ ret' = r
           /\ opened' = IF r.kind = "return" THEN opened \cup {"psf"} ELSE opened
           /\ pc' = IF r.kind = "return" THEN "returned" ELSE "raised"
    /\ UNCHANGED <<input_model, ref_files, args, locals, opt, ran, log, call_no,
                   first_ret, synth_args, synth_ret, store_vars>>

\* ------------------------------------------------------------- psf_profile

\* lines 294-298: the exposure type is checked first
CheckExpType ==
    /\ pc = "psf_profile"
    /\ IF input_model.exp_type # SUPPORTED
       THEN /\ ret' = [kind |-> "raise", error |-> "NotImplementedError"]
            /\ pc' = "raised"
       ELSE /\ ret' = ret
            /\ pc' = "read_refs"
    /\ UNCHANGED <<input_model, ref_files, args, locals, opt, opened, ran, log,
                   call_no, first_ret, synth_args, synth_ret, store_vars>>

\* lines 300-302: the Reference Loader
ReadReferenceFiles ==
    /\ pc = "read_refs"
    /\ LET t == open_specwcs(ref_files.specwcs, input_model.exp_type)
           m == open_psf(ref_files.psf, input_model.exp_type)
       IN  IF t.kind = "raise" \/ m.kind = "raise"
           THEN /\ ret' = IF t.kind = "raise" THEN t ELSE m
                /\ opened' = IF t.kind = "raise" THEN opened
                             ELSE opened \cup {"specwcs"}
                /\ pc' = "raised"
                /\ locals' = locals
           ELSE /\ locals' = [locals EXCEPT !.trace = t.trace,
                                            !.wavetab = t.wavetab,
                                            !.psf_model = m.psf_model]
                /\ opened' = opened \cup {"specwcs", "psf"}
                /\ pc' = "cutout"
                /\ ret' = ret
    /\ ran' = Append(ran, "loader")
    /\ UNCHANGED <<input_model, ref_files, args, opt, log, call_no, first_ret,
                   synth_args, synth_ret, store_vars>>

\* np.mean of a bounding-box interval
Mean(interval) == Div(Add(interval[1], interval[2]), Num(2))

\* lines 311-312: the middle wavelength in use
ResolveMiddleWl(middle_wl, wcs_wl) ==
    IF middle_wl = None \/ IsNaN(middle_wl) THEN wcs_wl ELSE middle_wl

\* mutant: the centre taken along the dispersion axis
ResolveLocation_other_axis(location, dispaxis, bbox) ==
    IF location = None \/ IsNaN(location)
    THEN (IF dispaxis = HORIZONTAL THEN Mean(bbox[1]) ELSE Mean(bbox[2]))
    ELSE location

\* lines 313-317: the trace location in use
ResolveLocation(location, dispaxis, bbox) ==
    IF location = None \/ IsNaN(location)
    THEN (IF dispaxis = HORIZONTAL THEN Mean(bbox[2]) ELSE Mean(bbox[1]))
    ELSE location

\* lines 304-329: defaults from the WCS, the cutout of the data
MakeCutout ==
    /\ pc = "cutout"
    /\ LET bbox == input_model.bbox
           y0 == Ceil(bbox[2][1])
           y1 == Ceil(bbox[2][2])
           x0 == Round(bbox[1][1])
           x1 == Round(bbox[1][2])
           nd == Len(input_model.data_shape)
       IN  locals' = [locals EXCEPT
                !.dispaxis = input_model.dispaxis,
                !.middle_wl = ResolveMiddleWl(args.middle_wl, input_model.wcs_wl),
                !.location = ResolveLocation(args.location, input_model.dispaxis, bbox),
                !.y0 = y0, !.y1 = y1, !.x0 = x0, !.x1 = x1,
                !.cutout_shape =
                    <<SliceLen(y0, y1, input_model.data_shape[nd - 1]),
                      SliceLen(x0, x1, input_model.data_shape[nd])>>]
    /\ pc' = "check_resampled"
    /\ UNCHANGED <<input_model, ref_files, args, opt, opened, ran, log, ret,
                   call_no, first_ret, synth_args, synth_ret, store_vars>>

\* mutant: the step status compared in another case
IsResampled_lowercase(model) == model.resample = "complete"

\* line 333: resampled = str(input_model.meta.cal_step.resample) == 'COMPLETE'
IsResampled(model) == model.resample = "COMPLETE"

\* lines 331-336: resampled data is refused
CheckResampled ==
    /\ pc = "check_resampled"
    /\ IF IsResampled(input_model)
       THEN /\ log' = log \cup {"error: Optimal extraction must be performed on cal files."}
            /\ ret' = [kind |-> "raise", error |-> "NotImplementedError"]
            /\ pc' = "raised"
       ELSE /\ log' = log
            /\ ret' = ret
            /\ pc' = "locate"
    /\ UNCHANGED <<input_model, ref_files, args, locals, opt, opened, ran,
                   call_no, first_ret, synth_args, synth_ret, store_vars>>

\* lines 338-363: the Trace Locator
LocateTrace ==
    /\ pc = "locate"
    /\ LET cen_shift == CubicSpline(locals.wavetab, locals.trace, locals.middle_wl)
           shift == TraceShift(locals.wavetab, locals.trace, locals.middle_wl,
                               locals.location)
           trace_shift == ShiftedTrace(locals.trace, input_model.bbox, shift)
       IN  locals' = [locals EXCEPT
                !.cen_shift = cen_shift,
                !.shift = shift,
                !.trace_shift = trace_shift,
                !.psf_shift = PsfShift(locals.wavetab, trace_shift, locals.psf_model)]
    /\ ran' = Append(ran, "locator")
    /\ pc' = "nod_pair"
    /\ UNCHANGED <<input_model, ref_files, args, opt, opened, log, ret, call_no,
                   first_ret, synth_args, synth_ret, store_vars>>

\* mutant: the flag ignored, the shifts always optimized
OptimizeRequested_always(call_args) == TRUE

\* line 389: if optimize_shifts
OptimizeRequested(call_args) == call_args.optimize_shifts

\* lines 365-381: whether a negative nod trace is modelled, and where
ResolveNodOffset ==
    /\ pc = "nod_pair"
    /\ IF args.model_nod_pair
       THEN IF input_model.back_sub # "COMPLETE"
            THEN /\ log' = log \cup {"info: Input data was not nod-subtracted."}
                 /\ locals' = [locals EXCEPT !.nod_offset = None]
            ELSE LET nod_center == nod_pair_location(input_model, locals.middle_wl,
                                                     locals.dispaxis)
                 IN  IF IsNaN(nod_center)
                     THEN /\ log' = log \cup {"warning: Nod center could not be estimated from the WCS."}
                          /\ locals' = [locals EXCEPT !.nod_offset = None]
                     ELSE /\ log' = log
                          /\ locals' = [locals EXCEPT
                                !.nod_offset = Sub(locals.location, nod_center)]
       ELSE /\ log' = log
            /\ locals' = [locals EXCEPT !.nod_offset = None]
    /\ pc' = IF OptimizeRequested(args) THEN "optimize" ELSE "no_optimize"
    /\ UNCHANGED <<input_model, ref_files, args, opt, opened, ran, ret, call_no,
                   first_ret, synth_args, synth_ret, store_vars>>

\* lines 171-175: the profiles _profile_residual builds for a trial vector
\* param = (extra_shift, nod_offset); the optimal extraction it then runs on
\* them only decides which vector the minimizer tries next
profile_residual(param, xidx, yidx, psf_subpix, psf_shift, psf_data, dispaxis) ==
    make_cutout_profile(xidx, yidx, psf_subpix, psf_shift, psf_data, dispaxis,
                        param[1], param[2])

\* the residual evaluated on the cutout's index grid
Evaluate(param) ==
    profile_residual(param,
        mgrid_x(locals.cutout_shape[1], locals.cutout_shape[2]),
        mgrid_y(locals.cutout_shape[1], locals.cutout_shape[2]),
        locals.psf_model.subpix, locals.psf_shift, locals.psf_model.data,
        locals.dispaxis)

\* the residual evaluations a minimizer run makes after the first
MaxEval == 1
\* the steps the minimizer may take from one trial vector to the next
TrialSteps == {<<Rat(1, 2), Zero>>, <<Rat(-1, 4), Rat(1, 2)>>}

\* optimize.minimize casts [0.0, nod_offset] to a float array
\* (astype(float)): a None entry becomes NaN
AsFloat(v) == IF v = None THEN NaN ELSE v

\* lines 389-394: the minimizer starts from [0.0, nod_offset]
StartMinimize ==
    /\ pc = "optimize"
    /\ LET x0 == <<Zero, AsFloat(locals.nod_offset)>>
       IN  opt' = [x |-> x0, nfev |-> 1, sprofiles |-> Evaluate(x0)]
    /\ log' = log \cup {"info: Optimizing trace locations"}
    /\ ran' = ran \o <<"optimizer", "synth">>
    /\ pc' = "minimizing"
    /\ UNCHANGED <<input_model, ref_files, args, locals, opened, ret, call_no,
                   first_ret, synth_args, synth_ret, store_vars>>

\* the minimizer evaluates the residual at another trial vector
MinimizeStep ==
    /\ pc = "minimizing"
    /\ opt.nfev <= MaxEval
    /\ \E d \in TrialSteps :
        LET x == <<Add(opt.x[1], d[1]), Add(opt.x[2], d[2])>>
        IN  opt' = [x |-> x, nfev |-> opt.nfev + 1, sprofiles |-> Evaluate(x)]
    /\ ran' = Append(ran, "synth")
    /\ UNCHANGED <<input_model, ref_files, args, locals, opened, log, ret,
                   call_no, first_ret, synth_args, synth_ret, store_vars,
                   pc>>

\* lines 391-394: nothing catches an exception that leaves the minimizer
MinimizeRaises ==
    /\ pc = "minimizing"
    /\ ret' = [kind |-> "raise", error |-> "MinimizerError"]
    /\ pc' = "raised"
    /\ UNCHANGED <<input_model, ref_files, args, locals, opt, opened, ran, log,
                   call_no, first_ret, synth_args, synth_ret, store_vars>>

\* mutant: the returned extra_shift is not added to location
FinishMinimize_location_kept ==
    /\ pc = "minimizing"
    /\ locals' = [locals EXCEPT !.extra_shift = opt.x[1],
                                !.nod_offset = opt.x[2]]
    /\ pc' = "final_synth"
    /\ UNCHANGED <<input_model, ref_files, args, opt, opened, ran, log, ret,
                   call_no, first_ret, synth_args, synth_ret, store_vars>>

\* lines 391-395: the vector the minimizer ends on is taken as it is
FinishMinimize ==
    /\ pc = "minimizing"
    /\ locals' = [locals EXCEPT !.extra_shift = opt.x[1],
                                !.nod_offset = opt.x[2],
                                !.location = Add(locals.location, opt.x[1])]
    /\ pc' = "final_synth"
    /\ UNCHANGED <<input_model, ref_files, args, opt, opened, ran, log, ret,
                   call_no, first_ret, synth_args, synth_ret, store_vars>>

\* lines 396-397
SkipOptimize ==
    /\ pc = "no_optimize"
    /\ locals' = [locals EXCEPT !.extra_shift = Zero]
    /\ pc' = "final_synth"
    /\ UNCHANGED <<input_model, ref_files, args, opt, opened, ran, log, ret,
                   call_no, first_ret, synth_args, synth_ret, store_vars>>

\* mutant: the final Profile Synthesizer call made twice
FinalSynthesis_twice ==
    /\ pc = "final_synth"
    /\ locals' = [locals EXCEPT !.sprofiles =
            make_cutout_profile(
                mgrid_x(locals.cutout_shape[1], locals.cutout_shape[2]),
                mgrid_y(locals.cutout_shape[1], locals.cutout_shape[2]),
                locals.psf_model.subpix, locals.psf_shift, locals.psf_model.data,
                locals.dispaxis, locals.extra_shift, locals.nod_offset)]
    /\ log' = log \cup {"info: Centering profile on spectrum"}
                  \cup (IF locals.nod_offset # None
                        THEN {"info: Also modeling a negative trace"} ELSE {})
    /\ ran' = ran \o <<"synth", "synth">>
    /\ pc' = "embed"
    /\ UNCHANGED <<input_model, ref_files, args, opt, opened, ret, call_no,
                   first_ret, synth_args, synth_ret, store_vars>>

\* lines 399-409: the final Profile Synthesizer call
FinalSynthesis ==
    /\ pc = "final_synth"
    /\ locals' = [locals EXCEPT !.sprofiles =
            make_cutout_profile(
                mgrid_x(locals.cutout_shape[1], locals.cutout_shape[2]),
                mgrid_y(locals.cutout_shape[1], locals.cutout_shape[2]),
                locals.psf_model.subpix, locals.psf_shift, locals.psf_model.data,
                locals.dispaxis, locals.extra_shift, locals.nod_offset)]
    /\ log' = log \cup {"info: Centering profile on spectrum"}
                  \cup (IF locals.nod_offset # None
                        THEN {"info: Also modeling a negative trace"} ELSE {})
    /\ ran' = Append(ran, "synth")
    /\ pc' = "embed"
    /\ UNCHANGED <<input_model, ref_files, args, opt, opened, ret, call_no,
                   first_ret, synth_args, synth_ret, store_vars>>

\* lines 422-426: the limits returned with the profiles
Limits(dispaxis, x0, x1, y0, y1) ==
    IF dispaxis = HORIZONTAL THEN <<y0, y1>> ELSE <<x0, x1>>

\* lines 411-426: the profiles in the shape of the input data, and the return
EmbedAndReturn ==
    /\ pc = "embed"
    /\ LET out == [k \in DOMAIN locals.sprofiles |->
                    EmbedProfile(locals.sprofiles[k], input_model.data_shape,
                                 locals.x0, locals.x1, locals.y0, locals.y1)]
           limits == Limits(locals.dispaxis, locals.x0, locals.x1,
                            locals.y0, locals.y1)
       IN  IF out[1].kind = "raise"
           THEN /\ ret' = out[1]
                /\ pc' = "raised"
           ELSE /\ ret' = [kind |-> "return",
                           profiles |-> [k \in DOMAIN out |-> out[k].profile],
                           lower_limit |-> limits[1],
                           upper_limit |-> limits[2]]
                /\ pc' = "returned"
    /\ UNCHANGED <<input_model, ref_files, args, locals, opt, opened, ran, log,
                   call_no, first_ret, synth_args, synth_ret, store_vars>>

\* the caller of psf_profile(..., optimize_shifts=False) calls it once more
\* with the same arguments
CallAgain ==
    /\ pc \in {"returned", "raised"}
    /\ call_no = 1
    /\ ~args.optimize_shifts
    /\ first_ret' = ret
    /\ call_no' = 2
    /\ ret' = NoRet
    /\ locals' = LocalsInit
    /\ opt' = None
    /\ ran' = <<>>
    /\ log' = {}
    /\ opened' = {}
    /\ pc' = "psf_profile"
    /\ UNCHANGED <<input_model, ref_files, args, synth_args, synth_ret, store_vars>>

Next ==
    \/ CallOpenSpecwcs
    \/ CallOpenPsf
    \/ CheckExpType
    \/ ReadReferenceFiles
    \/ MakeCutout
    \/ CheckResampled
    \/ LocateTrace
    \/ ResolveNodOffset
    \/ StartMinimize
    \/ MinimizeStep
    \/ MinimizeRaises
    \/ FinishMinimize
    \/ SkipOptimize
    \/ FinalSynthesis
    \/ EmbedAndReturn
    \/ CallAgain

Spec == Init /\ [][Next]_vars

\* ------------------------------------------- properties of psf_profile

\* a psf_profile call (not a direct call of a loader) is running or has ended
InPsfProfile == call_no >= 1
Ended == pc \in {"returned", "raised"}
Raised(error) == pc = "raised" /\ ret = [kind |-> "raise", error |-> error]
Ran(component) == \E i \in DOMAIN ran : ran[i] = component
NodSubtracted == input_model.back_sub = "COMPLETE"
\* the call passes both precondition checks
Accepted == input_model.exp_type = SUPPORTED /\ input_model.resample # "COMPLETE"

\* C2 as stated: the nod_offset handed to the final Profile Synthesizer call
\* is None unless model_nod_pair is requested and back_sub is COMPLETE, for
\* every optimize_shifts; and with model_nod_pair=True and back_sub absent the
\* call raises nothing and returns exactly one profile
C2_NodOffsetNoneUnlessRequestedAndSubtracted ==
    InPsfProfile =>
        /\ (pc = "embed" /\ locals.nod_offset # None)
                => (args.model_nod_pair /\ NodSubtracted)
        /\ (Ended /\ Accepted /\ args.model_nod_pair /\ ~NodSubtracted)
                => (pc = "returned" /\ Len(ret.profiles) = 1)

\* C3: psf_profile, open_specwcs and open_psf raise NotImplementedError for
\* every exposure type but MIR_LRS-FIXEDSLIT; psf_profile does so before
\* anything else, so it opens no reference file and makes no profile
C3_UnsupportedExposureTypeRaises ==
    input_model # None /\ input_model.exp_type # SUPPORTED =>
        /\ pc \in {"psf_profile", "open_specwcs", "open_psf", "raised"}
        /\ pc = "raised" => Raised("NotImplementedError")
        /\ opened = {}
        /\ ran = <<>>
        /\ locals.sprofiles = None

\* a psf_profile call refused for its exposure type
C3_Witness ==
    /\ InPsfProfile
    /\ input_model.exp_type # SUPPORTED
    /\ Raised("NotImplementedError")

\* C4: psf_profile raises NotImplementedError whenever the resample step is
\* COMPLETE, whatever middle_wl, location, optimize_shifts and
\* model_nod_pair; the Trace Locator, the Shift Optimizer and the Profile
\* Synthesizer do not run and nothing is returned
C4_ResampledDataRaises ==
    (InPsfProfile /\ input_model.resample = "COMPLETE") =>
        /\ pc \in {"psf_profile", "read_refs", "cutout", "check_resampled", "raised"}
        /\ pc = "raised" => Raised("NotImplementedError")
        /\ ~Ran("locator") /\ ~Ran("optimizer") /\ ~Ran("synth")
        /\ locals.sprofiles = None

\* a call on resampled data of the supported exposure type, refused after
\* the reference files were read
C4_Witness ==
    /\ InPsfProfile
    /\ input_model.exp_type = SUPPORTED
    /\ input_model.resample = "COMPLETE"
    /\ args.location = Num(25) /\ args.optimize_shifts /\ args.model_nod_pair
    /\ opened = {"specwcs", "psf"}
    /\ Raised("NotImplementedError")

\* C5 as stated: with model_nod_pair, back_sub COMPLETE and a NaN nod
\* location from nod_pair_location, psf_profile does not raise: nod_offset
\* becomes None, the diagnostic is logged and a single profile is returned
C5_UndefinedNodLocationDisablesNodPair ==
    (InPsfProfile /\ Accepted /\ args.model_nod_pair /\ NodSubtracted
        /\ IsNaN(nod_pair_location(input_model, locals.middle_wl, input_model.dispaxis))) =>
        /\ pc = "embed" => locals.nod_offset = None
        /\ Ended =>
            /\ pc = "returned"
            /\ Len(ret.profiles) = 1
            /\ "warning: Nod center could not be estimated from the WCS." \in log

\* the shape of one frame of the observation
FrameShape == SubSeq(input_model.data_shape, Len(input_model.data_shape) - 1,
                     Len(input_model.data_shape))

\* C6 as stated: every successful psf_profile call returns one or two 2-D
\* profiles, each in the shape of the full frame, for 2-D data and for a 3-D
\* stack of integrations, with the limits (y0, y1) for horizontal and
\* (x0, x1) for vertical dispersion
C6_FullFrameProfilesAndLimits ==
    (InPsfProfile /\ pc = "returned") =>
        /\ Len(ret.profiles) \in {1, 2}
        /\ \A k \in DOMAIN ret.profiles : ret.profiles[k].shape = FrameShape
        /\ <<ret.lower_limit, ret.upper_limit>> =
                IF input_model.dispaxis = HORIZONTAL
                THEN <<locals.y0, locals.y1>> ELSE <<locals.x0, locals.x1>>

Located == locals # None /\ locals.shift # None /\ locals.extra_shift = None

\* C9: the rigid shift is location minus the trace position at middle_wl;
\* when middle_wl is a table wavelength that is location minus the table
\* entry's position (5 for the table (1, 10), (2, 20), (3, 30) with
\* middle_wl=2, location=25), and the shifted trace is the trace minus the
\* lower x edge of the bounding box plus that shift at every table point
C9_RigidShiftFromTraceTable ==
    Located =>
        /\ \A i \in DOMAIN locals.wavetab :
            locals.middle_wl = locals.wavetab[i]
                => locals.shift = Sub(locals.location, locals.trace[i])
        /\ \A i \in DOMAIN locals.trace :
            locals.trace_shift[i] =
                Add(Sub(locals.trace[i], input_model.bbox[1][1]), locals.shift)
        /\ (locals.trace = RatSeq(<<10, 20, 30>>) /\ locals.wavetab = RatSeq(<<1, 2, 3>>)
                /\ locals.middle_wl = Num(2) /\ locals.location = Num(25))
            => locals.shift = Num(5)

\* the Trace Locator run on the table (1, 10), (2, 20), (3, 30) with
\* middle_wl=2 and location=25
C9_Witness ==
    /\ Located
    /\ locals.trace = RatSeq(<<10, 20, 30>>)
    /\ locals.wavetab = RatSeq(<<1, 2, 3>>)
    /\ args.middle_wl = Num(2)
    /\ args.location = Num(25)
    /\ locals.shift = Num(5)
    /\ locals.trace_shift # locals.trace

\* the minimizer has been called in this psf_profile call
OptimizerCalls == Cardinality({i \in DOMAIN ran : ran[i] = "optimizer"})
\* the call has gone past the minimizer, which returned a vector
PastOptimizer == opt # None /\ locals.extra_shift # None
\* the profiles of the final Profile Synthesizer call for the given shifts
FinalProfiles(extra_shift, nod_offset) ==
    make_cutout_profile(
        mgrid_x(locals.cutout_shape[1], locals.cutout_shape[2]),
        mgrid_y(locals.cutout_shape[1], locals.cutout_shape[2]),
        locals.psf_model.subpix, locals.psf_shift, locals.psf_model.data,
        locals.dispaxis, extra_shift, nod_offset)

\* C11: with optimize_shifts on, the minimizer is called exactly once; the
\* vector it returns is used as it is, whatever it is: extra_shift and
\* nod_offset are its two entries, location is the resolved location plus
\* extra_shift, the final Profile Synthesizer call is made with both; and the
\* optimizer ends the call only by an exception of the minimizer itself
C11_MinimizerResultUsedAsReturned ==
    (InPsfProfile /\ args.optimize_shifts /\ opt # None) =>
        /\ OptimizerCalls = 1
        /\ PastOptimizer =>
            /\ locals.extra_shift = opt.x[1]
            /\ locals.nod_offset = opt.x[2]
            /\ locals.location =
                    Add(ResolveLocation(args.location, input_model.dispaxis,
                                        input_model.bbox), opt.x[1])
            /\ locals.sprofiles \in {None, FinalProfiles(opt.x[1], opt.x[2])}
            /\ pc \in {"final_synth", "embed", "returned", "raised"}
            /\ pc # "final_synth" => locals.sprofiles # None
        /\ (pc = "raised" /\ ~PastOptimizer) => Raised("MinimizerError")

\* a call whose minimizer went on to a second trial vector and returned it:
\* the final profiles are those of that vector, with a moved location
C11_Witness ==
    /\ InPsfProfile
    /\ pc = "returned"
    /\ args.optimize_shifts
    /\ opt.nfev = 2
    /\ opt.x[1] # Zero
    /\ locals.location # ResolveLocation(args.location, input_model.dispaxis,
                                         input_model.bbox)
    /\ locals.sprofiles = FinalProfiles(opt.x[1], opt.x[2])

\* C12 as stated: the minimizer starts from (0.0, 0.0) when nod_offset is
\* None on entry to the Shift Optimizer and from (0.0, nod_offset) otherwise,
\* and no trial vector handed to the residual function holds None
C12_OptimizerStartsFromZeroForNone ==
    (InPsfProfile /\ pc = "minimizing") =>
        /\ opt.nfev = 1 =>
                opt.x = <<Zero, IF locals.nod_offset = None THEN Zero
                                ELSE locals.nod_offset>>
        /\ opt.x[1] # None /\ opt.x[2] # None

\* the centre of the bounding box along x (k = 1) or y (k = 2)
BoxCenter(k) ==
    Div(Add(input_model.bbox[k][1], input_model.bbox[k][2]), Num(2))
\* an argument the caller left undefined
Undefined(v) == v = None \/ IsNaN(v)

\* C13: middle_wl is the caller's value unless that is None or NaN, and then
\* the wavelength the WCS gives at the centre of the bounding box; location
\* is the caller's value unless that is None or NaN, and then center_y for
\* horizontal and center_x for vertical dispersion; both are settled before
\* the trace shift is computed, which uses the settled values
C13_DefaultsOnlyForNoneOrNaN ==
    InPsfProfile =>
        /\ locals.middle_wl # None =>
                locals.middle_wl = IF Undefined(args.middle_wl)
                                   THEN input_model.wcs_wl ELSE args.middle_wl
        /\ (locals.location # None /\ locals.extra_shift = None) =>
                locals.location =
                    IF ~Undefined(args.location) THEN args.location
                    ELSE IF input_model.dispaxis = HORIZONTAL
                         THEN BoxCenter(2) ELSE BoxCenter(1)
        /\ locals.shift # None =>
                /\ locals.middle_wl # None /\ locals.location # None
                /\ locals.extra_shift = None =>
                        locals.shift =
                            Sub(locals.location,
                                CubicSpline(locals.wavetab, locals.trace,
                                            locals.middle_wl))

\* the Trace Locator run for a caller who gave a middle_wl but a NaN
\* location, on a bounding box whose two centres differ
C13_Witness ==
    /\ Located
    /\ args.middle_wl = Rat(5, 2) /\ locals.middle_wl = Rat(5, 2)
    /\ args.location = NaN
    /\ BoxCenter(1) # BoxCenter(2)
    /\ input_model.dispaxis = HORIZONTAL
    /\ locals.location = BoxCenter(2)
    /\ locals.shift = Sub(BoxCenter(2), locals.cen_shift)

\* the nod_offset of lines 365-381, before any optimization
UnoptimizedNodOffset ==
    LET nod_center == nod_pair_location(input_model, locals.middle_wl,
                                        input_model.dispaxis)
        location == ResolveLocation(args.location, input_model.dispaxis,
                                    input_model.bbox)
    IN  IF args.model_nod_pair /\ NodSubtracted /\ ~IsNaN(nod_center)
        THEN Sub(location, nod_center) ELSE None
\* n Profile Synthesizer calls in a row
SynthCalls(n) == [i \in 1 .. n |-> "synth"]

\* C14: a psf_profile call that returns has run the Reference Loader, then
\* the Trace Locator, then, only with optimize_shifts, the Shift Optimizer
\* with one Profile Synthesizer call per residual evaluation, then exactly
\* one final Profile Synthesizer call; without optimize_shifts the minimizer
\* is never called and the final call is made with extra_shift = 0 and the
\* unoptimized nod_offset, with it the final call is made with the two
\* entries of the vector the minimizer returned
C14_ComponentOrder ==
    (InPsfProfile /\ pc = "returned") =>
        IF args.optimize_shifts
        THEN /\ opt # None /\ opt.nfev >= 1
             /\ ran = <<"loader", "locator", "optimizer">>
                        \o SynthCalls(opt.nfev) \o <<"synth">>
             /\ locals.sprofiles = FinalProfiles(opt.x[1], opt.x[2])
        ELSE /\ opt = None
             /\ ran = <<"loader", "locator", "synth">>
             /\ locals.sprofiles = FinalProfiles(Zero, UnoptimizedNodOffset)

\* a returned call whose minimizer evaluated the residual twice and whose
\* final profiles differ from those of the unoptimized shifts
C14_Witness ==
    /\ InPsfProfile
    /\ pc = "returned"
    /\ args.optimize_shifts
    /\ ran = <<"loader", "locator", "optimizer", "synth", "synth", "synth">>
    /\ locals.sprofiles # FinalProfiles(Zero, UnoptimizedNodOffset)

\* ------------------------------------------- direct calls of the synthesizer

MaxPsfVal == 1
PsfValues == {Num(v) : v \in -1 .. MaxPsfVal} \cup {NaN}

\* the PSF image: the oversampled cross-dispersion axis is its rows for
\* HORIZONTAL dispersion (yidx is scaled) and its columns for VERTICAL.
\* Its first cross-dispersion section takes every value pattern, its second
\* one a pattern of SynthSecondSections.
SynthSections == [0 .. 2 -> PsfValues]
SynthSecondSections ==
    {[i \in 0 .. 2 |-> One],
     [i \in 0 .. 2 |-> IF i = 1 THEN NaN ELSE One],
     [i \in 0 .. 2 |-> Num(i - 1)]}
SynthPsfData(dispaxis) ==
    {IF dispaxis = HORIZONTAL
     THEN Array2(3, 2, [p \in Idx2(3, 2) |-> IF p[2] = 0 THEN s0[p[1]] ELSE s1[p[1]]])
     ELSE Array2(2, 3, [p \in Idx2(2, 3) |-> IF p[1] = 0 THEN s0[p[2]] ELSE s1[p[2]]]) :
        s0 \in SynthSections, s1 \in SynthSecondSections}

\* one shift per index along the dispersion axis
SynthPsfShifts ==
    {[i \in 0 .. 1 |-> Zero],
     [i \in 0 .. 1 |-> IF i = 0 THEN Rat(-1, 2) ELSE One]}
SynthExtraShifts == {Zero, Rat(1, 2)}
SynthNodOffsets == {None, One, Rat(-1, 4)}
SynthSubpix == {One, Num(2)}

SynthInit ==
    /\ pc = "synth_call"
    /\ synth_ret = None
    /\ input_model = None /\ ref_files = None /\ args = None /\ locals = None
    /\ opt = None /\ opened = {} /\ ran = <<>> /\ log = {} /\ ret = None
    /\ call_no = 0 /\ first_ret = None
    /\ heap = <<>> /\ scope = None /\ caller = None
    /\ \E dispaxis \in {HORIZONTAL, VERTICAL} :
        \E psf_data \in SynthPsfData(dispaxis), psf_shift \in SynthPsfShifts,
           psf_subpix \in SynthSubpix, extra_shift \in SynthExtraShifts,
           nod_offset \in SynthNodOffsets :
            synth_args = [xidx |-> mgrid_x(2, 2), yidx |-> mgrid_y(2, 2),
                          psf_subpix |-> psf_subpix, psf_shift |-> psf_shift,
                          psf_data |-> psf_data, dispaxis |-> dispaxis,
                          extra_shift |-> extra_shift, nod_offset |-> nod_offset]

CallMakeCutoutProfile ==
    /\ pc = "synth_call"
    /\ synth_ret' = make_cutout_profile(
            synth_args.xidx, synth_args.yidx, synth_args.psf_subpix,
            synth_args.psf_shift, synth_args.psf_data, synth_args.dispaxis,
            synth_args.extra_shift, synth_args.nod_offset)
    /\ pc' = "synth_returned"
    /\ UNCHANGED <<synth_args, orch_vars, store_vars>>

SynthNext == CallMakeCutoutProfile

SpecSynth == SynthInit /\ [][SynthNext]_vars

\* ------------------------------------------ properties of the synthesizer

SynthReturned == pc = "synth_returned"

\* the sums of a profile across the cross-dispersion axis, one per index
\* along the dispersion axis
CrossSums(profile, dispaxis) ==
    IF dispaxis = HORIZONTAL THEN SumAxis0(profile) ELSE SumAxis1(profile)

\* the resampled PSF weights behind the k-th profile of the call
Resampled(k) ==
    IF k = 1
    THEN ResamplePrimary(synth_args.xidx, synth_args.yidx, synth_args.psf_subpix,
                         synth_args.psf_shift, synth_args.psf_data,
                         synth_args.dispaxis, synth_args.extra_shift)
    ELSE ResampleNod(synth_args.xidx, synth_args.yidx, synth_args.psf_subpix,
                     synth_args.psf_shift, synth_args.psf_data,
                     synth_args.dispaxis, synth_args.extra_shift,
                     synth_args.nod_offset)

\* the k-th profile sums to unit (or to 0 where the resampled weights sum to
\* zero or to a non-finite value) at every index along the dispersion axis
SumsAre(k, unit) ==
    LET sums == CrossSums(synth_ret[k], synth_args.dispaxis)
        raw == CrossSums(Resampled(k), synth_args.dispaxis)
    IN  \A i \in DOMAIN sums :
            /\ sums[i] \in {Zero, unit}
            /\ sums[i] = Zero <=> (raw[i] = Zero \/ IsNaN(raw[i]))

\* C1 as stated: every profile the synthesizer returns, for either dispersion
\* axis, sums across the cross-dispersion axis to exactly 1 or exactly 0 at
\* every dispersion index, 0 exactly where the resampled weights sum to zero
\* or are non-finite
C1_EveryProfileSumsToOneOrZero ==
    SynthReturned => \A k \in DOMAIN synth_ret : SumsAre(k, One)

\* C1 amended: the primary profile sums to exactly 1 or 0, the negative-trace
\* profile (the normalized profile times -1) to exactly -1 or 0, and the sum
\* is 0 exactly where the resampled weights sum to zero or are non-finite
C1_CrossSumsNormalized ==
    SynthReturned =>
        /\ SumsAre(1, One)
        /\ Len(synth_ret) = 2 => SumsAre(2, Num(-1))

\* a call with both profiles, each with a section of fractional weights that
\* sums to its unit and a section that sums to 0
C1_Witness ==
    /\ SynthReturned
    /\ Len(synth_ret) = 2
    /\ \E p \in Idx2(2, 2) : synth_ret[1].val[p] \notin {Zero, One}
    /\ \A k \in 1 .. 2 :
        LET sums == CrossSums(synth_ret[k], synth_args.dispaxis)
        IN  {sums[i] : i \in DOMAIN sums} = {Zero, Num(IF k = 1 THEN 1 ELSE -1)}

\* C7: with a nod_offset n that is not None, the second profile is the
\* element-wise negation of the primary profile of the same call made with
\* nod_offset=None and extra_shift = e + psf_subpix * n, and the first
\* profile is the one the call returns with nod_offset=None
C7_NodProfileIsNegatedShiftedPrimary ==
    (SynthReturned /\ synth_args.nod_offset # None) =>
        /\ Len(synth_ret) = 2
        /\ synth_ret[2] =
            Negate(make_cutout_profile(
                synth_args.xidx, synth_args.yidx, synth_args.psf_subpix,
                synth_args.psf_shift, synth_args.psf_data, synth_args.dispaxis,
                Add(synth_args.extra_shift,
                    Mul(synth_args.psf_subpix, synth_args.nod_offset)),
                None)[1])
        /\ synth_ret[1] =
            make_cutout_profile(
                synth_args.xidx, synth_args.yidx, synth_args.psf_subpix,
                synth_args.psf_shift, synth_args.psf_data, synth_args.dispaxis,
                synth_args.extra_shift, None)[1]

\* a call with psf_subpix 2, a non-zero extra_shift and a nod_offset, whose
\* negative profile is neither zero nor the negated first profile
C7_Witness ==
    /\ SynthReturned
    /\ synth_args.nod_offset # None
    /\ synth_args.psf_subpix = Num(2)
    /\ synth_args.extra_shift # Zero
    /\ synth_ret[2] # Negate(synth_ret[1])
    /\ \E p \in Idx2(2, 2) : synth_ret[2].val[p] \notin {Zero, Num(-1)}

NonNegative(profile) == \A p \in DOMAIN profile.val : ~Less(profile.val[p], Zero)
NonPositive(profile) == \A p \in DOMAIN profile.val : ~Less(Zero, profile.val[p])

\* C10 as stated: for every PSF image and every shift, the primary profile
\* has no negative value and the negative-trace profile no positive one
C10_ProfileSigns ==
    SynthReturned =>
        /\ NonNegative(synth_ret[1])
        /\ Len(synth_ret) = 2 => NonPositive(synth_ret[2])

\* C10 amended: the same, for every PSF image that holds no negative value
C10_ProfileSignsOfNonNegativePsf ==
    (SynthReturned /\ NonNegative(synth_args.psf_data)) =>
        /\ NonNegative(synth_ret[1])
        /\ Len(synth_ret) = 2 => NonPositive(synth_ret[2])

\* a call on a PSF image without negative values that returns both profiles,
\* the first with a positive and the second with a negative weight
C10_Witness ==
    /\ SynthReturned
    /\ NonNegative(synth_args.psf_data)
    /\ Len(synth_ret) = 2
    /\ \E p \in Idx2(2, 2) : Less(Zero, synth_ret[1].val[p])
    /\ \E p \in Idx2(2, 2) : Less(synth_ret[2].val[p], Zero)

\* ------------------------------------------------ the storage of the arrays

\* the _make_cutout_profile calls one caller makes on the same index grids:
\* the residual evaluations of the minimizer and the final call
MaxCalls == 2

\* the observation and its wavelengths, a frame of 3 x 3 pixels
StoreData == Array2(3, 3, [p \in Idx2(3, 3) |-> Num(p[1] + p[2])])
StoreWlArray == Array2(3, 3, [p \in Idx2(3, 3) |-> Num(p[2] + 1)])
StoreBbox == <<<<Rat(1, 2), Rat(5, 2)>>, <<Rat(-1, 2), Rat(3, 2)>>>>

\* a PSF image with a peak, and a uniform one
StorePsfData(dispaxis) ==
    {PsfImage(dispaxis),
     [PsfImage(dispaxis) EXCEPT
        !.val = [p \in DOMAIN PsfImage(dispaxis).val |-> One]]}

\* name = expression: the value is put in a newly allocated array and the
\* name is bound to it; the array the name was bound to is left as it was
Rebind_in_place(buffers, id, value) ==
    [heap |-> [buffers EXCEPT ![id] = value], id |-> id]

Rebind(buffers, id, value) ==
    [heap |-> Append(buffers, value), id |-> Len(buffers) + 1]

\* name += expression, name[mask] = expression: the array the name is bound
\* to is overwritten
Update(buffers, id, value) == [buffers EXCEPT ![id] = value]

\* psf_profile holds the data, wl_array, the PSF model and, from np.mgrid,
\* the index grids of the cutout
StoreInit ==
    /\ pc = "store_idle"
    /\ synth_ret = None
    /\ input_model = None /\ ref_files = None /\ args = None /\ locals = None
    /\ opt = None /\ opened = {} /\ ran = <<>> /\ log = {} /\ ret = None
    /\ call_no = 0 /\ first_ret = None
    /\ \E dispaxis \in {HORIZONTAL, VERTICAL} :
        \E psf_data \in StorePsfData(dispaxis), psf_shift \in SynthPsfShifts,
           psf_subpix \in SynthSubpix :
            /\ synth_args = [xidx |-> mgrid_x(2, 2), yidx |-> mgrid_y(2, 2),
                             psf_subpix |-> psf_subpix, psf_shift |-> psf_shift,
                             psf_data |-> psf_data, dispaxis |-> dispaxis,
                             data |-> StoreData, wl_array |-> StoreWlArray]
            /\ heap = <<mgrid_x(2, 2), mgrid_y(2, 2), psf_data, psf_shift,
                        StoreData, StoreWlArray>>
    /\ caller = [x |-> 1, y |-> 2, psf_data |-> 3, psf_shift |-> 4,
                 data |-> 5, wl_array |-> 6,
                 sprofiles |-> <<>>, profiles |-> <<>>, calls |-> 0]
    /\ scope = None

\* lines 174-175 and 407-409: _make_cutout_profile is entered, its
\* parameters bound to the caller's arrays
StoreCall ==
    /\ pc \in {"store_idle", "store_back"}
    /\ caller.calls < MaxCalls
    /\ \E extra_shift \in SynthExtraShifts, nod_offset \in SynthNodOffsets :
        scope' = [xidx |-> caller.x, yidx |-> caller.y,
                  psf_data |-> caller.psf_data, psf_shift |-> caller.psf_shift,
                  extra_shift |-> extra_shift, nod_offset |-> nod_offset,
                  sprofile |-> 0, nod_profile |-> 0]
    /\ caller' = [caller EXCEPT !.calls = @ + 1, !.sprofiles = <<>>]
    /\ pc' = "store_scale"
    /\ UNCHANGED <<orch_vars, synth_args, synth_ret, heap>>

\* lines 149-152: the cross-dispersion index is scaled and shifted
StoreScale ==
    /\ pc = "store_scale"
    /\ LET horizontal == synth_args.dispaxis = HORIZONTAL
           id == IF horizontal THEN scope.yidx ELSE scope.xidx
           r == Rebind(heap, id,
                       ShiftedIdx(heap[id], synth_args.psf_subpix,
                                  heap[scope.psf_shift], synth_args.dispaxis,
                                  scope.extra_shift))
       IN  /\ heap' = r.heap
           /\ scope' = IF horizontal THEN [scope EXCEPT !.yidx = r.id]
                       ELSE [scope EXCEPT !.xidx = r.id]
    /\ pc' = "store_primary"
    /\ UNCHANGED <<orch_vars, synth_args, synth_ret, caller>>

\* the array map_coordinates returns, then normalized in place
Resample(buffers, names, dispaxis) ==
    LET r == Rebind(buffers, 0,
                    map_coordinates(buffers[names.psf_data],
                                    buffers[names.yidx], buffers[names.xidx]))
    IN  [heap |-> Update(r.heap, r.id, normalize_profile(r.heap[r.id], dispaxis)),
         id |-> r.id]

\* lines 153-154: the primary profile
StoreResamplePrimary ==
    /\ pc = "store_primary"
    /\ LET r == Resample(heap, scope, synth_args.dispaxis)
       IN  /\ heap' = r.heap
           /\ scope' = [scope EXCEPT !.sprofile = r.id]
    /\ pc' = "store_nod"
    /\ UNCHANGED <<orch_vars, synth_args, synth_ret, caller>>

\* lines 156-163: the single profile is returned, or the index is shifted
\* in place for the negative trace
StoreReturnOrShift ==
    /\ pc = "store_nod"
    /\ IF scope.nod_offset = None
       THEN /\ caller' = [caller EXCEPT !.sprofiles = <<scope.sprofile>>]
            /\ scope' = None
            /\ heap' = heap
            /\ pc' = "store_back"
       ELSE LET id == IF synth_args.dispaxis = HORIZONTAL
                      THEN scope.yidx ELSE scope.xidx
            IN  /\ heap' = Update(heap, id,
                                  NodIdx(heap[id], synth_args.psf_subpix,
                                         scope.nod_offset))
                /\ UNCHANGED <<scope, caller>>
                /\ pc' = "store_nod_profile"
    /\ UNCHANGED <<orch_vars, synth_args, synth_ret>>

\* lines 165-166: the profile of the negative trace
StoreResampleNod ==
    /\ pc = "store_nod_profile"
    /\ LET r == Resample(heap, scope, synth_args.dispaxis)
       IN  /\ heap' = r.heap
           /\ scope' = [scope EXCEPT !.nod_profile = r.id]
    /\ pc' = "store_pair"
    /\ UNCHANGED <<orch_vars, synth_args, synth_ret, caller>>

\* line 168: nod_profile * -1 is a new array
StoreReturnPair ==
    /\ pc = "store_pair"
    /\ LET r == Rebind(heap, 0, Negate(heap[scope.nod_profile]))
       IN  /\ heap' = r.heap
           /\ caller' = [caller EXCEPT !.sprofiles = <<scope.sprofile, r.id>>]
    /\ scope' = None
    /\ pc' = "store_back"
    /\ UNCHANGED <<orch_vars, synth_args, synth_ret>>

\* the arrays the loop of lines 416-420 has allocated and filled for the
\* first n profiles
RECURSIVE EmbedAll(_, _, _)
EmbedAll(buffers, ids, n) ==
    IF n = 0 THEN [heap |-> buffers, ids |-> <<>>]
    ELSE LET before == EmbedAll(buffers, ids, n - 1)
             r == Rebind(before.heap, 0,
                         EmbedProfile(before.heap[ids[n]], StoreData.shape,
                                      Round(StoreBbox[1][1]), Round(StoreBbox[1][2]),
                                      Ceil(StoreBbox[2][1]), Ceil(StoreBbox[2][2])).profile)
         IN  [heap |-> r.heap, ids |-> Append(before.ids, r.id)]

\* lines 411-426: after the final call, the profiles in the shape of the data
StoreEmbed ==
    /\ pc = "store_back"
    /\ LET r == EmbedAll(heap, caller.sprofiles, Len(caller.sprofiles))
       IN  /\ heap' = r.heap
           /\ caller' = [caller EXCEPT !.profiles = r.ids]
    /\ pc' = "store_done"
    /\ UNCHANGED <<orch_vars, synth_args, synth_ret, scope>>

StoreNext ==
    \/ StoreCall
    \/ StoreScale
    \/ StoreResamplePrimary
    \/ StoreReturnOrShift
    \/ StoreResampleNod
    \/ StoreReturnPair
    \/ StoreEmbed

SpecStore == StoreInit /\ [][StoreNext]_vars

\* --------------------------------------------- properties of the storage

\* the arrays handed to psf_profile and to _make_cutout_profile
InputBuffers ==
    {caller.x, caller.y, caller.psf_data, caller.psf_shift, caller.data,
     caller.wl_array}
\* the arrays of a list are pairwise distinct and none is an input array
Fresh(ids) ==
    /\ Cardinality({ids[i] : i \in DOMAIN ids}) = Len(ids)
    /\ \A i \in DOMAIN ids : ids[i] \notin InputBuffers

\* C15: at every step of every call the index grids, the PSF image, the
\* shifts, the data and wl_array hold the values they had at the start; the
\* profiles _make_cutout_profile returns are distinct arrays, none of them an
\* input array, and so are the profiles psf_profile returns, which are none
\* of the arrays _make_cutout_profile returned either
C15_InputsUnchangedOutputsFresh ==
    /\ heap[caller.x] = synth_args.xidx
    /\ heap[caller.y] = synth_args.yidx
    /\ heap[caller.psf_data] = synth_args.psf_data
    /\ heap[caller.psf_shift] = synth_args.psf_shift
    /\ heap[caller.data] = synth_args.data
    /\ heap[caller.wl_array] = synth_args.wl_array
    /\ Fresh(caller.sprofiles \o caller.profiles)

\* two calls on the same grids, the second with a negative trace built from
\* indices shifted in place, and both of its profiles embedded
C15_Witness ==
    /\ pc = "store_done"
    /\ caller.calls = 2
    /\ Len(caller.profiles) = 2
    /\ synth_args.psf_subpix = Num(2)
    /\ \E i \in DOMAIN heap :
        /\ i \notin InputBuffers
        /\ heap[i].shape = <<2, 2>>
        /\ heap[i] # synth_args.yidx /\ heap[i] # synth_args.xidx
        /\ heap[caller.sprofiles[2]] =
                Negate(normalize_profile(
                    map_coordinates(synth_args.psf_data,
                        IF synth_args.dispaxis = HORIZONTAL THEN heap[i]
                        ELSE synth_args.yidx,
                        IF synth_args.dispaxis = HORIZONTAL THEN synth_args.xidx
                        ELSE heap[i]),
                    synth_args.dispaxis))
    /\ \E q \in DOMAIN heap[caller.profiles[2]].val :
            heap[caller.profiles[2]].val[q] # Zero

====
